---- MODULE Spec2Model ----
(***************************************************************************)
(* Model of backend/server.py: a FastAPI application over eight MongoDB    *)
(* collections.  Every route handler is one database call (insert_one,     *)
(* find_one, find) except the dashboard (five count_documents calls) and   *)
(* the startup hook (find_one / insert_one per sample record), which are   *)
(* modelled one await at a time.                                           *)
(*                                                                         *)
(* A stored document keeps the fields some handler reads: id, the          *)
(* is_active / is_available flag, category, store_id, user_id, status and  *)
(* email.  The ObjectId the driver adds to every inserted document is the  *)
(* field oid.  Fields no handler ever reads (name, price, location, ...)   *)
(* are left out.  A response is the value the handler returns or the       *)
(* HTTPException it raises.                                                *)
(***************************************************************************)
EXTENDS Integers, FiniteSets, Sequences, TLC

VARIABLES db, created, sp, dash, resp

vars == <<db, created, sp, dash, resp>>

(* ------------------------------ bounds --------------------------------- *)

\* records the create endpoints may store
MaxCreates == 2

\* the server processes; each runs startup_event once, when it starts
Procs == {1, 2}

(* ------------------------------ values --------------------------------- *)

\* Python's None (an optional parameter or body field that was not given)
NoneVal == "<None>"

\* truth value of an Optional[str] in `if category:`: None and "" are falsy
Truthy(s) == s # NoneVal /\ s # ""

Collections ==
    {"users", "stores", "products", "orders", "cab_services", "cab_bookings",
     "handyman_services", "handyman_bookings"}

EmptyDb == [c \in Collections |-> {}]

\* the ObjectId the driver generates for the n-th insert of process p's
\* startup_event, and (p = 0) for the n-th insert of a request handler; no
\* two inserts share one
ObjectId(p, n) == 100 * p + n

\* the least n >= 1 outside used
LeastFree(used) == CHOOSE n \in 1..(Cardinality(used) + 1) :
                     n \notin used /\ \A m \in 1..(n - 1) : m \in used

\* the ObjectId of the next insert of a request handler into coll
NextObjectId(coll) ==
    ObjectId(0, LeastFree({n \in 1..Cardinality(coll) :
                             \E d \in coll : d.oid = ObjectId(0, n)}))

\* str(uuid.uuid4()): an identifier that no record of the collection carries
Uuid4(coll) ==
    "uuid-" \o ToString(LeastFree({n \in 1..Cardinality(coll) :
                                     \E d \in coll : d.id = "uuid-" \o ToString(n)}))

(* --------------------------- collection calls -------------------------- *)

\* insert_one into a collection with a unique index on id, the duplicate
\* dropped
insert_one_unique(coll, doc, oid) ==
    IF \E d \in coll : d.id = doc.id THEN coll
    ELSE coll \cup {[doc EXCEPT !.oid = oid]}

\* insert_one replacing the stored document of the same id (an upsert)
insert_one_upsert(coll, doc, oid) ==
    {d \in coll : d.id # doc.id} \cup {[doc EXCEPT !.oid = oid]}

\* collection.insert_one(doc): the driver stamps a fresh ObjectId and the
\* server stores the document; no index but the one on the ObjectId exists,
\* so a document whose id field is already stored is stored as well
insert_one(coll, doc, oid) == coll \cup {[doc EXCEPT !.oid = oid]}

\* the documents collection.find_one({"id": id}) may return
find_matches(coll, id) == {d \in coll : d.id = id}

\* collection.count_documents({})
count_documents(coll) == Cardinality(coll)

(* ------------------------------ documents ------------------------------ *)

StoreDoc(id, is_active, category) ==
    [oid |-> 0, id |-> id, is_active |-> is_active, category |-> category]

ProductDoc(id, is_available, store_id, category) ==
    [oid |-> 0, id |-> id, is_available |-> is_available, store_id |-> store_id,
     category |-> category]

CabServiceDoc(id, is_active) == [oid |-> 0, id |-> id, is_active |-> is_active]

HandymanServiceDoc(id, is_active, category) ==
    [oid |-> 0, id |-> id, is_active |-> is_active, category |-> category]

UserDoc(id, email) == [oid |-> 0, id |-> id, email |-> email]

\* an Order, a CabBooking or a HandymanBooking
BookingDoc(id, user_id, status) ==
    [oid |-> 0, id |-> id, user_id |-> user_id, status |-> status]

(* ------------------------------- startup ------------------------------- *)

\* the sample records of startup_event, in the order its four loops visit them
Seeds ==
    << [coll |-> "stores", doc |-> StoreDoc("store-1", TRUE, "grocery")],
       [coll |-> "stores", doc |-> StoreDoc("store-2", TRUE, "electronics")],
       [coll |-> "products",
        doc |-> ProductDoc("prod-1", TRUE, "store-1", "vegetables")],
       [coll |-> "products",
        doc |-> ProductDoc("prod-2", TRUE, "store-1", "groceries")],
       [coll |-> "cab_services", doc |-> CabServiceDoc("cab-1", TRUE)],
       [coll |-> "cab_services", doc |-> CabServiceDoc("cab-2", TRUE)],
       [coll |-> "handyman_services",
        doc |-> HandymanServiceDoc("handy-1", TRUE, "plumbing")],
       [coll |-> "handyman_services",
        doc |-> HandymanServiceDoc("handy-2", TRUE, "electrical")] >>

NumSeeds == Len(Seeds)

\* the stored documents carrying the id of the k-th sample record
SeedMatches(k) == find_matches(db[Seeds[k].coll], Seeds[k].doc.id)

IdleRun == [pc |-> "idle", i |-> 1, inserted |-> {}, after |-> FALSE]

\* the dashboard's count of stores without its {"is_active": True} filter
count_active_stores_all(dbv) == count_documents(dbv.stores)

\* db.stores.count_documents({"is_active": True})
count_active_stores(dbv) == count_documents({s \in dbv.stores : s.is_active})

\* what the five count queries of the dashboard give when all are put to
\* the one storage state dbv
Counts(dbv) ==
    [users |-> count_documents(dbv.users),
     orders |-> count_documents(dbv.orders),
     stores |-> count_active_stores(dbv),
     cab |-> count_documents(dbv.cab_bookings),
     handyman |-> count_documents(dbv.handyman_bookings)]

\* a dashboard request that is not in progress.  start, seen and wrote keep
\* the history of the request in progress: the counts of the storage when
\* it started, of every storage state since, and whether a write landed
IdleDash ==
    [pc |-> "idle", current_user |-> NoneVal, total_users |-> 0, total_orders |-> 0,
     total_stores |-> 0, cab |-> 0, wrote |-> FALSE,
     start |-> Counts(EmptyDb), seen |-> {}]

\* no request has been answered yet
NoResp ==
    [op |-> NoneVal, args |-> NoneVal, current_user |-> NoneVal, status |-> 0,
     body |-> NoneVal]

\* the position of run p after it is through with sample record i
Advance(run) ==
    IF run.i = NumSeeds THEN [run EXCEPT !.pc = "done"]
    ELSE [run EXCEPT !.pc = "find", !.i = run.i + 1]

\* a write that lands while a dashboard request is between its counts
NoteWrite(d, dbv) ==
    IF d.pc = "idle" THEN d
    ELSE [d EXCEPT !.wrote = TRUE, !.seen = d.seen \cup {Counts(dbv)}]

\* a server process starts: the framework calls startup_event
StartupBegin(p) ==
    /\ sp[p].pc = "idle"
    /\ sp' = [sp EXCEPT ![p] = [pc |-> "find", i |-> 1, inserted |-> {},
                                after |-> \A q \in Procs \ {p} : sp[q].pc = "done"]]
    /\ UNCHANGED <<db, created, dash, resp>>

\* existing = await db.<coll>.find_one({"id": record["id"]}); if not existing: ...
StartupFind(p) ==
    /\ sp[p].pc = "find"
    /\ sp' = [sp EXCEPT ![p] =
                IF SeedMatches(sp[p].i) = {} THEN [sp[p] EXCEPT !.pc = "insert"]
                ELSE Advance(sp[p])]
    /\ UNCHANGED <<db, created, dash, resp>>

\* await db.<coll>.insert_one(record)
StartupInsert(p) ==
    /\ sp[p].pc = "insert"
    /\ LET s == Seeds[sp[p].i] IN
         db' = [db EXCEPT ![s.coll] = insert_one(db[s.coll], s.doc, ObjectId(p, sp[p].i))]
    /\ sp' = [sp EXCEPT ![p] =
                Advance([sp[p] EXCEPT !.inserted = sp[p].inserted \cup {sp[p].i}])]
    /\ dash' = NoteWrite(dash, db')
    /\ UNCHANGED <<created, resp>>

startup_event(p) == StartupBegin(p) \/ StartupFind(p) \/ StartupInsert(p)

(* ------------------------------ requests ------------------------------- *)

\* the Authorization header of a request: absent, or "Bearer <token>"
Tokens == {"dummy-token", "forged-token"}

AuthHeaders == {NoneVal} \cup Tokens

\* a bool field of a request body: absent or false
FlagField == {NoneVal, "false"}

\* a bool field of a request body whose schema default is True
DefaultTrue(v) == v # "false"

\* a str field of a request body with a schema default
DefaultStr(v, default) == IF v = NoneVal THEN default ELSE v

\* id: str = Field(default_factory=lambda: str(uuid.uuid4()))
DefaultId(v, coll) == IF v = NoneVal THEN Uuid4(coll) ELSE v

UserBodies == [id : {NoneVal, "user-1"}, email : {"a@example.com"}]

StoreBodies == [id : {NoneVal, "store-1"}, is_active : FlagField, category : {"grocery"}]

ProductBodies ==
    [id : {NoneVal}, is_available : FlagField, store_id : {"store-2"},
     category : {"vegetables"}]

OrderBodies == [id : {NoneVal}, user_id : {"u1"}, status : {NoneVal, "delivered"}]

CabBookingBodies == [id : {NoneVal}, user_id : {"u1"}, status : {NoneVal}]

HandymanBookingBodies == [id : {NoneVal}, user_id : {"u1"}, status : {NoneVal}]

\* the pydantic models built from a request body b; the uuid drawn for an
\* absent id is fresh in the collection coll the record goes to
User(b, coll) == UserDoc(DefaultId(b.id, coll), b.email)

Store(b, coll) == StoreDoc(DefaultId(b.id, coll), DefaultTrue(b.is_active), b.category)

Product(b, coll) ==
    ProductDoc(DefaultId(b.id, coll), DefaultTrue(b.is_available), b.store_id,
               b.category)

\* Order, CabBooking and HandymanBooking: status defaults to "pending"
Booking(b, coll) ==
    BookingDoc(DefaultId(b.id, coll), b.user_id, DefaultStr(b.status, "pending"))

\* security = HTTPBearer(): the credentials of the header, None when the
\* header is missing (the framework then answers before the handler runs)
\* HTTPBearer verifying the token against the one issued
HTTPBearer_checks_token(auth) == IF auth = "dummy-token" THEN auth ELSE NoneVal

HTTPBearer(auth) == auth

get_current_user(credentials) == [uid |-> "dummy-user-id", email |-> "user@example.com"]

\* the answer of the bearer-extraction step to a request without credentials
NotAuthenticated(dbv) ==
    [db |-> dbv, status |-> 403, body |-> [detail |-> "Not authenticated"],
     current_user |-> NoneVal]

\* the exceptions insert_one is made to raise: a write the server refuses
\* and a server that cannot be reached
InsertErrors == {"DuplicateKeyError", "ServerSelectionTimeoutError"}

\* what one call of insert_one does: it returns (NoneVal) or raises
Raised == {NoneVal} \cup InsertErrors

\* str(e) of an exception raised by insert_one
str(e) == e \o " raised by insert_one"

\* the body shared by the six create handlers without its except branch: the
\* exception of insert_one reaches the framework, which answers 500
CreateHandler_no_except(dbv, coll, doc, oid, fails, message) ==
    IF fails # NoneVal
    THEN [db |-> dbv, status |-> 500, body |-> [detail |-> "Internal Server Error"]]
    ELSE [db |-> [dbv EXCEPT ![coll] = insert_one(dbv[coll], doc, oid)],
          status |-> 200, body |-> [message |-> message, id |-> doc.id]]

\* the body shared by the six create handlers: try insert_one and answer
\* with the identifier; except Exception: HTTPException(400, str(e))
CreateHandler(dbv, coll, doc, oid, fails, message) ==
    IF fails # NoneVal
    THEN [db |-> dbv, status |-> 400, body |-> [detail |-> str(fails)]]
    ELSE [db |-> [dbv EXCEPT ![coll] = insert_one(dbv[coll], doc, oid)],
          status |-> 200, body |-> [message |-> message, id |-> doc.id]]

\* create_user over a users collection with a unique index on email
create_user_unique_email(dbv, user, oid, fails) ==
    CreateHandler(dbv, "users", user, oid,
                  IF \E u \in dbv.users : u.email = user.email
                  THEN "DuplicateKeyError" ELSE fails,
                  "User created successfully")

create_user(dbv, user, oid, fails) ==
    CreateHandler(dbv, "users", user, oid, fails, "User created successfully")

create_store(dbv, store, cu, oid, fails) ==
    CreateHandler(dbv, "stores", store, oid, fails, "Store created successfully")

create_product(dbv, product, cu, oid, fails) ==
    CreateHandler(dbv, "products", product, oid, fails, "Product created successfully")

create_order(dbv, order, cu, oid, fails) ==
    CreateHandler(dbv, "orders", order, oid, fails, "Order created successfully")

create_cab_booking(dbv, booking, cu, oid, fails) ==
    CreateHandler(dbv, "cab_bookings", booking, oid, fails,
                  "Cab booking created successfully")

create_handyman_booking(dbv, booking, cu, oid, fails) ==
    CreateHandler(dbv, "handyman_bookings", booking, oid, fails,
                  "Handyman booking created successfully")

\* the create endpoints that declare Depends(get_current_user)
ProtectedCreates ==
    {"create_store", "create_product", "create_order", "create_cab_booking",
     "create_handyman_booking"}

CreateOps == {"create_user"} \cup ProtectedCreates

\* the collection a create endpoint inserts into
CollOf(op) ==
    CASE op = "create_user" -> "users"
      [] op = "create_store" -> "stores"
      [] op = "create_product" -> "products"
      [] op = "create_order" -> "orders"
      [] op = "create_cab_booking" -> "cab_bookings"
      [] op = "create_handyman_booking" -> "handyman_bookings"

\* a POST as the framework runs it: the dependencies first (HTTPBearer, then
\* get_current_user), then the handler with the model built from the body
Post(dbv, op, auth, doc, oid, fails) ==
    IF op = "create_user"
    THEN [current_user |-> NoneVal] @@ create_user(dbv, doc, oid, fails)
    ELSE LET credentials == HTTPBearer(auth) IN
         IF credentials = NoneVal THEN NotAuthenticated(dbv)
         ELSE LET cu == get_current_user(credentials) IN
              [current_user |-> cu] @@
              (CASE op = "create_store" -> create_store(dbv, doc, cu, oid, fails)
                 [] op = "create_product" -> create_product(dbv, doc, cu, oid, fails)
                 [] op = "create_order" -> create_order(dbv, doc, cu, oid, fails)
                 [] op = "create_cab_booking" ->
                      create_cab_booking(dbv, doc, cu, oid, fails)
                 [] op = "create_handyman_booking" ->
                      create_handyman_booking(dbv, doc, cu, oid, fails))

\* whether a created record passes the implicit filter of its list endpoint
Listed(op, doc) ==
    CASE op = "create_store" -> doc.is_active
      [] op = "create_product" -> doc.is_available
      [] OTHER -> TRUE

\* the records the create endpoints have stored
NumCreated(dbv) ==
    Cardinality(UNION {{<<c, d.oid>> : d \in {e \in dbv[c] : e.oid < ObjectId(1, 0)}} :
                         c \in Collections})

\* the server process that takes the requests has finished startup_event
Serving == sp[1].pc = "done"

\* the event loop is free: the response of the last finished handler is out
LoopFree == Serving /\ resp = NoResp

\* one POST request: op with the model doc built from its body (given: the
\* id of the body), an Authorization header, and the insert returning
\* (fails = NoneVal) or raising the exception fails
CreateRequest(op, given, doc, auth, fails) ==
    /\ LoopFree
    /\ NumCreated(db) < MaxCreates
    /\ LET oid == NextObjectId(db[CollOf(op)])
           out == Post(db, op, auth, doc, oid, fails) IN
         /\ db' = out.db
         /\ resp' = [op |-> op,
                     args |-> [auth |-> auth, given |-> given, doc |-> doc,
                               oid |-> oid, fails |-> fails],
                     current_user |-> out.current_user, status |-> out.status,
                     body |-> out.body]
         /\ created' = IF out.status = 200
                       THEN created \cup {[op |-> op, id |-> out.body.id,
                                           listed |-> Listed(op, doc)]}
                       ELSE created
         /\ dash' = IF out.status = 200 THEN NoteWrite(dash, out.db) ELSE dash
    /\ UNCHANGED sp

\* POST /api/users declares no dependency: its Authorization header is not
\* looked at
CreateUser ==
    \E b \in UserBodies, fails \in Raised :
        CreateRequest("create_user", b.id, User(b, db.users), NoneVal, fails)

CreateStore ==
    \E b \in StoreBodies, auth \in AuthHeaders, fails \in Raised :
        CreateRequest("create_store", b.id, Store(b, db.stores), auth, fails)

CreateProduct ==
    \E b \in ProductBodies, auth \in AuthHeaders, fails \in Raised :
        CreateRequest("create_product", b.id, Product(b, db.products), auth, fails)

CreateOrder ==
    \E b \in OrderBodies, auth \in AuthHeaders, fails \in Raised :
        CreateRequest("create_order", b.id, Booking(b, db.orders), auth, fails)

CreateCabBooking ==
    \E b \in CabBookingBodies, auth \in AuthHeaders, fails \in Raised :
        CreateRequest("create_cab_booking", b.id, Booking(b, db.cab_bookings), auth, fails)

CreateHandymanBooking ==
    \E b \in HandymanBookingBodies, auth \in AuthHeaders, fails \in Raised :
        CreateRequest("create_handyman_booking", b.id, Booking(b, db.handyman_bookings),
                      auth, fails)

\* the server writes the response of the finished handler to the client
\* before the event loop resumes another coroutine
SendResponse ==
    /\ resp # NoResp
    /\ resp' = NoResp
    /\ UNCHANGED <<db, created, sp, dash>>

(* -------------------------------- reads -------------------------------- *)

\* health_check
health_check == [status |-> 200, body |-> [status |-> "healthy"]]

\* get_user without its `if not user` check
get_user_unchecked(dbv, user_id) ==
    IF find_matches(dbv.users, user_id) = {}
    THEN {[status |-> 200, body |-> NoneVal]}
    ELSE {[status |-> 200, body |-> u] : u \in find_matches(dbv.users, user_id)}

\* get_user: the answers find_one may give; it returns one of the stored
\* users of that id, in no order the code fixes
get_user(dbv, user_id) ==
    IF find_matches(dbv.users, user_id) = {}
    THEN {[status |-> 404, body |-> [detail |-> "User not found"]]}
    ELSE {[status |-> 200, body |-> u] : u \in find_matches(dbv.users, user_id)}

\* get_stores without the implicit filter on is_active
get_stores_unfiltered(dbv, category) ==
    [status |-> 200,
     body |-> [stores |-> {s \in dbv.stores : Truthy(category) => s.category = category}]]

get_stores(dbv, category) ==
    [status |-> 200,
     body |-> [stores |-> {s \in dbv.stores :
                             /\ s.is_active
                             /\ Truthy(category) => s.category = category}]]

get_products(dbv, store_id, category) ==
    [status |-> 200,
     body |-> [products |-> {q \in dbv.products :
                               /\ q.is_available
                               /\ Truthy(store_id) => q.store_id = store_id
                               /\ Truthy(category) => q.category = category}]]

\* the query of get_orders, get_cab_bookings and get_handyman_bookings
BookingQuery(coll, user_id, status) ==
    {o \in coll : /\ Truthy(user_id) => o.user_id = user_id
                  /\ Truthy(status) => o.status = status}

get_orders(dbv, user_id, status) ==
    [status |-> 200, body |-> [orders |-> BookingQuery(dbv.orders, user_id, status)]]

get_cab_services(dbv) ==
    [status |-> 200, body |-> [services |-> {c \in dbv.cab_services : c.is_active}]]

get_cab_bookings(dbv, user_id, status) ==
    [status |-> 200,
     body |-> [bookings |-> BookingQuery(dbv.cab_bookings, user_id, status)]]

get_handyman_services(dbv, category) ==
    [status |-> 200,
     body |-> [services |-> {h \in dbv.handyman_services :
                               /\ h.is_active
                               /\ Truthy(category) => h.category = category}]]

get_handyman_bookings(dbv, user_id, status) ==
    [status |-> 200,
     body |-> [bookings |-> BookingQuery(dbv.handyman_bookings, user_id, status)]]

\* the parameters the read requests are tried with
UserIdParams == {"user-1", "uuid-1"}

StoreCategoryParams == {NoneVal, "", "grocery", "electronics"}

ProductStoreParams == {NoneVal, "", "store-1"}

ProductCategoryParams == {NoneVal, "vegetables"}

ServiceCategoryParams == {NoneVal, "", "plumbing"}

BookingUserParams == {NoneVal, "u1"}

OrderStatusParams == {NoneVal, "delivered"}

BookingStatusParams == {NoneVal}

\* a GET request without dependencies: the handler's answer is the response
\* and nothing else changes
ReadRequest(op, args, out) ==
    /\ LoopFree
    /\ resp' = [op |-> op, args |-> args, current_user |-> NoneVal,
                status |-> out.status, body |-> out.body]
    /\ UNCHANGED <<db, created, sp, dash>>

HealthCheck == ReadRequest("health_check", NoneVal, health_check)

GetUser ==
    \E user_id \in UserIdParams : \E out \in get_user(db, user_id) :
        ReadRequest("get_user", [user_id |-> user_id], out)

GetStores ==
    \E category \in StoreCategoryParams :
        ReadRequest("get_stores", [category |-> category], get_stores(db, category))

GetProducts ==
    \E store_id \in ProductStoreParams, category \in ProductCategoryParams :
        ReadRequest("get_products", [store_id |-> store_id, category |-> category],
                    get_products(db, store_id, category))

GetOrders ==
    \E user_id \in BookingUserParams, status \in OrderStatusParams :
        ReadRequest("get_orders", [user_id |-> user_id, status |-> status],
                    get_orders(db, user_id, status))

GetCabServices == ReadRequest("get_cab_services", NoneVal, get_cab_services(db))

GetCabBookings ==
    \E user_id \in BookingUserParams, status \in BookingStatusParams :
        ReadRequest("get_cab_bookings", [user_id |-> user_id, status |-> status],
                    get_cab_bookings(db, user_id, status))

GetHandymanServices ==
    \E category \in ServiceCategoryParams :
        ReadRequest("get_handyman_services", [category |-> category],
                    get_handyman_services(db, category))

GetHandymanBookings ==
    \E user_id \in BookingUserParams, status \in BookingStatusParams :
        ReadRequest("get_handyman_bookings", [user_id |-> user_id, status |-> status],
                    get_handyman_bookings(db, user_id, status))

(* ------------------------------ dashboard ------------------------------ *)

\* the dashboard request as the framework starts it: the dependencies first
DashStart(auth) ==
    LET credentials == HTTPBearer(auth) IN
    IF credentials = NoneVal
    THEN [dash |-> IdleDash, status |-> 403]
    ELSE [dash |-> [IdleDash EXCEPT !.pc = "users",
                                    !.current_user = get_current_user(credentials)],
          status |-> 200]

\* GET /api/analytics/dashboard arrives
DashBegin ==
    /\ LoopFree
    /\ dash.pc = "idle"
    /\ \E auth \in AuthHeaders :
         LET out == DashStart(auth) IN
           /\ dash' = IF out.status = 403 THEN out.dash
                      ELSE [out.dash EXCEPT !.start = Counts(db),
                                            !.seen = {Counts(db)}]
           /\ resp' = IF out.status = 403
                      THEN [op |-> "get_dashboard_analytics", args |-> [auth |-> auth],
                            current_user |-> NoneVal, status |-> 403,
                            body |-> NotAuthenticated(db).body]
                      ELSE resp
    /\ UNCHANGED <<db, created, sp>>

\* total_users = await db.users.count_documents({})
DashCountUsers ==
    /\ dash.pc = "users"
    /\ dash' = [dash EXCEPT !.pc = "orders", !.total_users = count_documents(db.users)]
    /\ resp = NoResp
    /\ UNCHANGED <<db, created, sp, resp>>

\* total_orders = await db.orders.count_documents({})
DashCountOrders ==
    /\ dash.pc = "orders"
    /\ dash' = [dash EXCEPT !.pc = "stores", !.total_orders = count_documents(db.orders)]
    /\ resp = NoResp
    /\ UNCHANGED <<db, created, sp, resp>>

\* total_stores = await db.stores.count_documents({"is_active": True})
DashCountStores ==
    /\ dash.pc = "stores"
    /\ dash' = [dash EXCEPT !.pc = "cab", !.total_stores = count_active_stores(db)]
    /\ resp = NoResp
    /\ UNCHANGED <<db, created, sp, resp>>

\* the left operand of total_bookings: await db.cab_bookings.count_documents({})
DashCountCabBookings ==
    /\ dash.pc = "cab"
    /\ dash' = [dash EXCEPT !.pc = "handyman", !.cab = count_documents(db.cab_bookings)]
    /\ resp = NoResp
    /\ UNCHANGED <<db, created, sp, resp>>

\* the body of the dashboard with the right operand of total_bookings left
\* out of the sum
DashboardBody_cab_only(d, handyman) ==
    [total_users |-> d.total_users, total_orders |-> d.total_orders,
     total_stores |-> d.total_stores, total_bookings |-> d.cab,
     revenue |-> "125000.0", growth_rate |-> "15.5"]

\* the body get_dashboard_analytics returns; revenue and growth_rate are the
\* literals 125000.0 and 15.5 of the source
DashboardBody(d, handyman) ==
    [total_users |-> d.total_users, total_orders |-> d.total_orders,
     total_stores |-> d.total_stores, total_bookings |-> d.cab + handyman,
     revenue |-> "125000.0", growth_rate |-> "15.5"]

\* the right operand, await db.handyman_bookings.count_documents({}), the sum
\* and the return
DashCountHandymanBookings ==
    /\ dash.pc = "handyman"
    /\ resp = NoResp
    /\ resp' = [op |-> "get_dashboard_analytics", args |-> [wrote |-> dash.wrote, start |-> dash.start,
                          seen |-> dash.seen, cab |-> dash.cab],
                current_user |-> dash.current_user, status |-> 200,
                body |-> DashboardBody(dash, count_documents(db.handyman_bookings))]
    /\ dash' = IdleDash
    /\ UNCHANGED <<db, created, sp>>

get_dashboard_analytics ==
    \/ DashBegin
    \/ DashCountUsers
    \/ DashCountOrders
    \/ DashCountStores
    \/ DashCountCabBookings
    \/ DashCountHandymanBookings

(* ---------------------------- specification ---------------------------- *)

Init ==
    /\ db = EmptyDb
    /\ created = {}
    /\ sp = [p \in Procs |-> IdleRun]
    /\ dash = IdleDash
    /\ resp = NoResp

Next ==
    \/ startup_event(1)
    \/ SendResponse
    \/ HealthCheck
    \/ CreateUser
    \/ GetUser
    \/ GetStores
    \/ CreateStore
    \/ GetProducts
    \/ CreateProduct
    \/ CreateOrder
    \/ GetOrders
    \/ GetCabServices
    \/ CreateCabBooking
    \/ GetCabBookings
    \/ GetHandymanServices
    \/ CreateHandymanBooking
    \/ GetHandymanBookings
    \/ get_dashboard_analytics

Spec == Init /\ [][Next]_vars

(* --------------------- seeding against a used storage ------------------- *)

\* storages left behind by earlier requests and startups: every subset of a
\* few documents that POST /api/stores, POST /api/products and earlier
\* startups store
SeedStorages ==
    { [EmptyDb EXCEPT !.stores = s, !.products = q, !.handyman_services = h] :
        s \in SUBSET { [StoreDoc("store-1", TRUE, "grocery")
                          EXCEPT !.oid = ObjectId(0, 11)],
                       [StoreDoc("store-1", FALSE, "grocery")
                          EXCEPT !.oid = ObjectId(0, 12)],
                       [StoreDoc("store-2", TRUE, "electronics")
                          EXCEPT !.oid = ObjectId(0, 13)] },
        q \in SUBSET { [ProductDoc("prod-1", TRUE, "store-1", "vegetables")
                          EXCEPT !.oid = ObjectId(0, 14)] },
        h \in SUBSET { [HandymanServiceDoc("handy-2", TRUE, "electrical")
                          EXCEPT !.oid = ObjectId(0, 15)] } }

InitSeed ==
    /\ db \in SeedStorages
    /\ created = {}
    /\ sp = [p \in Procs |-> IdleRun]
    /\ dash = IdleDash
    /\ resp = NoResp

NextSeed == \E p \in Procs : startup_event(p)

SpecSeed == InitSeed /\ [][NextSeed]_vars

(* ------------------------- claims: seeding ----------------------------- *)

\* both startup_event runs are through
BothDone == \A p \in Procs : sp[p].pc = "done"

\* one run began only after the other had finished
InSequence == \E p \in Procs : sp[p].after

\* the record run p stores for the k-th sample record
SeedRecord(p, k) == [Seeds[k].doc EXCEPT !.oid = ObjectId(p, k)]

\* the storage was empty when the first run began: every stored record was
\* inserted by a startup_event run
StartedEmpty ==
    \A c \in Collections : \A d \in db[c] : d.oid >= ObjectId(1, 0)

\* C1: startup seeding is idempotent. For any initial storage state, after
\* two startup_event runs in sequence every seeded identifier has exactly one
\* record in its collection, and the second run has inserted nothing.
C1_SeedingIdempotent ==
    (BothDone /\ InSequence) =>
        /\ \A k \in 1..NumSeeds : Cardinality(SeedMatches(k)) = 1
        /\ \A p \in Procs : sp[p].after => sp[p].inserted = {}

\* C9: the check-then-insert of startup_event is not atomic. A run that saw a
\* seeded identifier absent inserts its record whatever the other run has
\* stored in between, so each run that inserted the k-th sample record has a
\* record of its own in the collection.
C9_EveryObservedAbsenceInserts ==
    \A p \in Procs : \A k \in sp[p].inserted :
        /\ SeedRecord(p, k) \in db[Seeds[k].coll]
        /\ Cardinality(SeedMatches(k)) >=
             Cardinality({q \in Procs : k \in sp[q].inserted})

\* C9 witness: two interleaved runs against an empty storage are through and
\* the stores collection holds two records with id store-1, one per run.
C9_TwoStoreOnes ==
    /\ BothDone
    /\ StartedEmpty
    /\ {SeedRecord(p, 1) : p \in Procs} \subseteq db.stores
    /\ Cardinality(find_matches(db.stores, "store-1")) = 2

(* ------------------------- claims: requests ---------------------------- *)

\* the ids of a set of records
Ids(records) == {d.id : d \in records}

\* the response is the answer of the named handler
Answered(op) == resp.op = op /\ resp.status = 200

\* the identifiers the create endpoint op has returned; listedOnly: those of
\* records created with is_active / is_available true
CreatedIds(op, listedOnly) ==
    {c.id : c \in {x \in created : x.op = op /\ (listedOnly => x.listed)}}

\* every identifier returned by a create endpoint is in an answer to GET
\* /api/users/{id} for it and in every unfiltered list of its resource
CreatedAreFetched(listedOnly) ==
    /\ (resp.op = "get_user" /\ resp.args.user_id \in CreatedIds("create_user", FALSE))
         => resp.status = 200 /\ resp.body.id = resp.args.user_id
    /\ (Answered("get_stores") /\ resp.args.category = NoneVal)
         => CreatedIds("create_store", listedOnly) \subseteq Ids(resp.body.stores)
    /\ (Answered("get_products") /\ resp.args.store_id = NoneVal
          /\ resp.args.category = NoneVal)
         => CreatedIds("create_product", listedOnly) \subseteq Ids(resp.body.products)
    /\ (Answered("get_orders") /\ resp.args.user_id = NoneVal
          /\ resp.args.status = NoneVal)
         => CreatedIds("create_order", FALSE) \subseteq Ids(resp.body.orders)
    /\ (Answered("get_cab_bookings") /\ resp.args.user_id = NoneVal
          /\ resp.args.status = NoneVal)
         => CreatedIds("create_cab_booking", FALSE) \subseteq Ids(resp.body.bookings)
    /\ (Answered("get_handyman_bookings") /\ resp.args.user_id = NoneVal
          /\ resp.args.status = NoneVal)
         => CreatedIds("create_handyman_booking", FALSE) \subseteq Ids(resp.body.bookings)

\* C2 as stated: for every resource kind with a create endpoint, after a
\* create request succeeded and returned identifier X, every later fetch or
\* unfiltered list of that resource includes a record with identifier X.
C2_CreatedAlwaysListed == CreatedAreFetched(FALSE)

\* C2 amended: the same for users, orders, cab bookings and handyman
\* bookings; for stores and products the unfiltered list includes X when the
\* record was created with is_active (is_available) true.
C2_CreatedListedWhenActive == CreatedAreFetched(TRUE)

\* C2 witness: a store created with is_active true under a generated id is
\* in the answer to an unfiltered GET /api/stores, next to a created store
\* that is_active false keeps out of it.
C2_CreatedStoreListed ==
    /\ Answered("get_stores")
    /\ resp.args.category = NoneVal
    /\ \E c \in created : c.op = "create_store" /\ c.listed /\ c.id \notin {"store-1"}
                          /\ c.id \in Ids(resp.body.stores)
    /\ \E c \in created : c.op = "create_store" /\ ~c.listed
                          /\ c.id \notin Ids(resp.body.stores)

\* C3: inserting a record whose identifier is already stored fails with
\* DuplicateKey: a create request never succeeds leaving two records of its
\* collection with the identifier it returned.
C3_DuplicateIdRejected ==
    (resp.op \in CreateOps /\ resp.status = 200) =>
        Cardinality(find_matches(db[CollOf(resp.op)], resp.body.id)) = 1

\* what the catalog lists must answer; emptyIsAbsent: an empty-string filter
\* parameter counts as no filter
Filtered(param, value, emptyIsAbsent) ==
    IF param = NoneVal \/ (emptyIsAbsent /\ param = "") THEN TRUE ELSE value = param

CatalogListsExact(emptyIsAbsent) ==
    /\ Answered("get_stores") =>
         resp.body.stores =
           {s \in db.stores : s.is_active
                              /\ Filtered(resp.args.category, s.category, emptyIsAbsent)}
    /\ Answered("get_products") =>
         resp.body.products =
           {q \in db.products : q.is_available
                                /\ Filtered(resp.args.store_id, q.store_id, emptyIsAbsent)
                                /\ Filtered(resp.args.category, q.category, emptyIsAbsent)}
    /\ Answered("get_handyman_services") =>
         resp.body.services =
           {h \in db.handyman_services :
              h.is_active /\ Filtered(resp.args.category, h.category, emptyIsAbsent)}

\* C4 as stated: GET /api/stores with no category returns exactly the stored
\* stores with is_active true, and with category = c exactly those with
\* is_active true and category = c; the same for products (is_available,
\* store_id, category) and handyman services (is_active, category).
C4_ListsFilterExactly == CatalogListsExact(FALSE)

\* C4 amended: the same for a non-empty category / store_id; an empty-string
\* parameter is treated as absent. No inactive or unavailable record is ever
\* returned.
C4_ListsFilterNonEmpty ==
    /\ CatalogListsExact(TRUE)
    /\ Answered("get_stores") => \A s \in resp.body.stores : s.is_active
    /\ Answered("get_products") => \A q \in resp.body.products : q.is_available
    /\ Answered("get_handyman_services") => \A h \in resp.body.services : h.is_active

\* C4 witness: GET /api/stores?category=grocery answers with the active
\* grocery store while an inactive grocery store is stored.
C4_InactiveStoreHidden ==
    /\ Answered("get_stores")
    /\ resp.args.category = "grocery"
    /\ resp.body.stores # {}
    /\ \E s \in db.stores : ~s.is_active /\ s.category = "grocery"

\* C5: GET /api/users/{id} answers 404 "User not found" exactly when no
\* stored user has that id, otherwise with a stored user of that id; the
\* request leaves every collection unchanged.
C5_GetUser ==
    [][resp'.op = "get_user" =>
         /\ db' = db
         /\ (resp'.status = 404) <=> (find_matches(db.users, resp'.args.user_id) = {})
         /\ resp'.status = 404 => resp'.body = [detail |-> "User not found"]
         /\ resp'.status # 404 =>
              /\ resp'.status = 200
              /\ resp'.body \in db.users
              /\ resp'.body.id = resp'.args.user_id]_vars

\* C5 witness: a user created under a generated id is fetched.
C5_UserFetched ==
    /\ Answered("get_user")
    /\ resp.args.user_id = "uuid-1"
    /\ resp.body \in db.users

\* the record a create request stores
NewRecord == [resp.args.doc EXCEPT !.oid = resp.args.oid]

\* C6: creating a user whose email equals the email of a stored user is not
\* rejected: unless the insert itself raises, the request succeeds, the new
\* record is stored next to the other one, and a generated identifier
\* differs from the identifier of every other user.
C6_SameEmailAccepted ==
    (resp.op = "create_user" /\ resp.args.fails = NoneVal
       /\ \E u \in db.users : u.oid # resp.args.oid /\ u.email = resp.args.doc.email)
    => /\ resp.status = 200
       /\ resp.body.id = resp.args.doc.id
       /\ NewRecord \in db.users
       /\ Cardinality({u \in db.users : u.email = resp.args.doc.email}) >= 2
       /\ resp.args.given = NoneVal =>
            \A u \in db.users : u.oid # resp.args.oid => u.id # resp.body.id

\* C6 witness: two users with one email and two generated identifiers.
C6_TwoUsersOneEmail ==
    /\ Answered("create_user")
    /\ \E u, v \in db.users : /\ u.email = v.email
                              /\ u.id = "uuid-1"
                              /\ v.id = "uuid-2"
                              /\ v = NewRecord

\* C7: with no write landing while it runs, the dashboard answers with the
\* number of stored users, of stored orders, of stored stores with is_active
\* true, and of cab bookings plus handyman bookings; revenue and growth_rate
\* are 125000.0 and 15.5 whatever is stored; no step of it changes a
\* collection.
C7_Dashboard ==
    [][/\ dash'.pc # dash.pc => db' = db
       /\ (resp'.op = "get_dashboard_analytics" /\ resp'.status = 200) =>
            /\ db' = db
            /\ resp'.body.revenue = "125000.0"
            /\ resp'.body.growth_rate = "15.5"
            /\ ~resp'.args.wrote =>
                 /\ resp'.body.total_users = Cardinality(db.users)
                 /\ resp'.body.total_orders = Cardinality(db.orders)
                 /\ resp'.body.total_stores =
                      Cardinality({s \in db.stores : s.is_active})
                 /\ resp'.body.total_bookings =
                      Cardinality(db.cab_bookings) + Cardinality(db.handyman_bookings)]_vars

\* C7 witness: an undisturbed dashboard answer over a storage with a user, a
\* booking and an inactive store.
C7_DashboardAnswered ==
    /\ Answered("get_dashboard_analytics")
    /\ ~resp.args.wrote
    /\ resp.body.total_users + resp.body.total_bookings >= 1
    /\ \E s \in db.stores : ~s.is_active

\* the models the protected create endpoint op is tried with
ModelsOf(op) ==
    CASE op = "create_store" -> {Store(b, db.stores) : b \in StoreBodies}
      [] op = "create_product" -> {Product(b, db.products) : b \in ProductBodies}
      [] op = "create_order" -> {Booking(b, db.orders) : b \in OrderBodies}
      [] op = "create_cab_booking" ->
           {Booking(b, db.cab_bookings) : b \in CabBookingBodies}
      [] op = "create_handyman_booking" ->
           {Booking(b, db.handyman_bookings) : b \in HandymanBookingBodies}

FixedIdentity == [uid |-> "dummy-user-id", email |-> "user@example.com"]

\* C8: the bearer token's value never influences the outcome. From every
\* reachable state, a request to a protected endpoint gives the same response
\* and the same storage for any two tokens, the identity handed to the
\* handler is the fixed one, and a request without Authorization header is
\* rejected with the storage unchanged and no handler started.
C8_TokenIgnored ==
    /\ LoopFree =>
         /\ \A op \in ProtectedCreates : \A doc \in ModelsOf(op) :
              \A fails \in Raised :
                LET oid == NextObjectId(db[CollOf(op)]) IN
                  /\ \A t \in Tokens :
                       /\ Post(db, op, t, doc, oid, fails) =
                            Post(db, op, "dummy-token", doc, oid, fails)
                       /\ Post(db, op, t, doc, oid, fails).status # 403
                  /\ Post(db, op, NoneVal, doc, oid, fails).status = 403
                  /\ Post(db, op, NoneVal, doc, oid, fails).db = db
         /\ \A t \in Tokens :
              DashStart(t) = DashStart("dummy-token") /\ DashStart(t).status = 200
         /\ DashStart(NoneVal).status = 403 /\ DashStart(NoneVal).dash.pc = "idle"
    /\ (resp.op \in ProtectedCreates \cup {"get_dashboard_analytics"}
          /\ resp.status # 403) => resp.current_user = FixedIdentity
    /\ dash.pc # "idle" => dash.current_user = FixedIdentity
    /\ (resp.op \in ProtectedCreates) => (resp.status = 403 <=> resp.args.auth = NoneVal)
    /\ (resp.op = "get_dashboard_analytics" /\ resp.status = 403)
          => resp.args.auth = NoneVal

\* C8 witness: POST /api/stores under the token no issuer ever gave out has
\* stored its record.
C8_ForgedTokenAccepted ==
    /\ Answered("create_store")
    /\ resp.args.auth = "forged-token"
    /\ resp.current_user = FixedIdentity
    /\ NewRecord \in db.stores

ReadOps ==
    {"health_check", "get_user", "get_stores", "get_products", "get_orders",
     "get_cab_services", "get_cab_bookings", "get_handyman_services",
     "get_handyman_bookings", "get_dashboard_analytics"}

\* C10: records are write-once. Every step keeps every stored record as it
\* is (collections only grow), and list, get, health and dashboard requests
\* leave all collections unchanged.
C10_WriteOnce ==
    [][/\ \A c \in Collections : db[c] \subseteq db'[c]
       /\ resp'.op \in ReadOps => db' = db
       /\ dash'.pc # dash.pc => db' = db]_vars

\* C10 witness: after seeding and the create requests, a list request is
\* answered with the seeded and the created stores all stored.
C10_GrownStorage ==
    /\ Answered("get_stores")
    /\ NumCreated(db) >= 1
    /\ Cardinality(db.stores) >= 3

(* ------------------------------- C11 ------------------------------------ *)

ListOps ==
    {"get_stores", "get_products", "get_orders", "get_cab_services",
     "get_cab_bookings", "get_handyman_services", "get_handyman_bookings"}

\* the collection a list endpoint reads
ListedColl(op) ==
    CASE op = "get_stores" -> "stores"
      [] op = "get_products" -> "products"
      [] op = "get_orders" -> "orders"
      [] op = "get_cab_services" -> "cab_services"
      [] op = "get_cab_bookings" -> "cab_bookings"
      [] op = "get_handyman_services" -> "handyman_services"
      [] op = "get_handyman_bookings" -> "handyman_bookings"

\* the sequence a list response carries in its one named field
Listing(r) == r.body[CHOOSE f \in DOMAIN r.body : TRUE]

\* the step that produces the response r of a create handler whose insert
\* raised: 400 with str(e), nothing stored
FailedCreate(r) ==
    /\ r.status = 400
    /\ r.body = [detail |-> str(r.args.fails)]
    /\ db' = db
    /\ created' = created

\* the step that produces the response r of a list request: no error, and
\* only stored records that satisfy every filter given, hence the empty
\* sequence when nothing matches
ListAnswer(r) ==
    /\ r.status = 200
    /\ Listing(r) \subseteq db[ListedColl(r.op)]
    /\ r.op # "get_cab_services" =>
         \A f \in DOMAIN r.args :
           Truthy(r.args[f]) => \A d \in Listing(r) : d[f] = r.args[f]
    /\ db' = db

\* one step of the server under the error handling of the routes; the
\* dashboard never answers with an error (dashboardInfallible), or only with
\* the rejection of a request without Authorization header
ErrorHandling(dashboardInfallible) ==
    /\ (resp'.op \in CreateOps /\ resp'.status # 403) =>
         /\ resp'.args.fails # NoneVal => FailedCreate(resp')
         /\ resp'.args.fails = NoneVal =>
              /\ resp'.status = 200
              /\ db'[CollOf(resp'.op)] =
                   db[CollOf(resp'.op)]
                     \cup {[resp'.args.doc EXCEPT !.oid = resp'.args.oid]}
    /\ resp'.op \in ListOps => ListAnswer(resp')
    /\ resp'.op = "get_dashboard_analytics" =>
         \/ resp'.status = 200
         \/ /\ ~dashboardInfallible
            /\ resp'.status = 403
            /\ resp'.args.auth = NoneVal
            /\ db' = db

Returned(body) ==
    <<body.total_users, body.total_orders, body.total_stores, body.total_bookings>>

\* the four counters a dashboard answers with when all its queries see the
\* one storage state with counts c
Snapshot(c) == <<c.users, c.orders, c.stores, c.cab + c.handyman>>

\* C12: the five counts are taken one after another, with create requests
\* in between.  Each counter a dashboard response returns lies between the
\* count of its collection when the request started and the count when the
\* response is produced (total_bookings: between the two sums), and so does
\* every counter already taken by a request in progress.
C12_CountersBetween ==
    /\ Answered("get_dashboard_analytics") =>
         LET start == Snapshot(resp.args.start)
             end == Snapshot(Counts(db)) IN
           /\ \A i \in 1..4 :
                start[i] <= Returned(resp.body)[i] /\ Returned(resp.body)[i] <= end[i]
           /\ resp.args.start.cab <= resp.args.cab
           /\ resp.args.cab <= Counts(db).cab
           /\ resp.args.start \in resp.args.seen
           /\ Counts(db) \in resp.args.seen
    /\ dash.pc \in {"orders", "stores", "cab", "handyman"} =>
         dash.start.users <= dash.total_users /\ dash.total_users <= Counts(db).users
    /\ dash.pc \in {"stores", "cab", "handyman"} =>
         dash.start.orders <= dash.total_orders
           /\ dash.total_orders <= Counts(db).orders
    /\ dash.pc \in {"cab", "handyman"} =>
         dash.start.stores <= dash.total_stores
           /\ dash.total_stores <= Counts(db).stores
    /\ dash.pc = "handyman" =>
         dash.start.cab <= dash.cab /\ dash.cab <= Counts(db).cab

\* C12 witness: a dashboard response whose four counters are the counts of
\* no storage state there was between the start of the request and the
\* response.
C12_TornResponse ==
    /\ Answered("get_dashboard_analytics")
    /\ \A c \in resp.args.seen : Snapshot(c) # Returned(resp.body)

\* the example of C12: total_bookings includes a handyman booking created
\* after a cab booking that was not counted
C12_BookingCountedPastCab ==
    /\ Answered("get_dashboard_analytics")
    /\ resp.args.cab = resp.args.start.cab
    /\ resp.body.total_bookings = resp.args.cab + resp.args.start.handyman + 1
    /\ \E c \in resp.args.seen :
         c.cab = resp.args.cab + 1 /\ c.handyman = resp.args.start.handyman

====
